---------------------------- MODULE Spec2Model ----------------------------
(***************************************************************************)
(* A model of diamond's OpenTSDB handler (src/diamond/handler/tsdb.py):    *)
(* TSDBHandler (static tags, connect / send / close over one socket) and   *)
(* MetricWrapper (collector specific tag extraction).                      *)
(*                                                                         *)
(* Strings are sequences of tokens.  A token is one of the delimiter       *)
(* characters "." " " "=" "," or a word: a maximal run of other            *)
(* characters, kept whole.  split, replace, count and startswith are       *)
(* modelled on these sequences as Python's str methods compute them.       *)
(***************************************************************************)
EXTENDS Integers, Sequences, FiniteSets, TLC

VARIABLES
    phase,      \* "new", "ready" (constructed), "failed" (__init__ raised), "dead"
    cfg,        \* self.config: tags, cleanMetrics, skipAggregates, timeout
    tags,       \* self.tags
    sock,       \* self.socket: None or the id of the socket object held
    open,       \* the socket objects created and not yet closed
    pc,         \* "idle", or "send" while the loop of _send is running
    retry,      \* the local retry of _send
    data,       \* the argument of the running / last _send call, if any
    op,         \* the operation running or last run
    trace,      \* what the operation did: one entry per _connect / sendall
    raised,     \* the operation ended by raising
    metric,     \* the metric handed to process / MetricWrapper, if any
    wrapper     \* the MetricWrapper built from it, if any

vars == <<phase, cfg, tags, sock, open, pc, retry, data, op, trace, raised,
          metric, wrapper>>

\* self.socket is None (socket ids start at 1)
None == 0

\* an absent metric, wrapper or line; a present one is <<x>>
Absent == <<>>

---------------------------------------------------------------------------
(* Bounds of the model. *)

\* segments of a metric path (after the collector) handed to MetricWrapper
MaxSegs == 5
\* tokens of a configured tags string
MaxTagLen == 4
\* strings of a configured tags list
MaxTagList == 2
\* socket objects that can be open at once (the descriptor limit)
MaxSockets == 2

---------------------------------------------------------------------------
(* Python str methods on token sequences. *)

DOT == "."
SPACE == " "
EQ == "="
COMMA == ","

RECURSIVE count(_, _)
count(s, c) ==
    IF s = <<>> THEN 0
    ELSE (IF Head(s) = c THEN 1 ELSE 0) + count(Tail(s), c)

startswith(s, p) ==
    Len(s) >= Len(p) /\ SubSeq(s, 1, Len(p)) = p

RECURSIVE splitFrom(_, _, _)
splitFrom(s, sep, cur) ==
    IF s = <<>> THEN <<cur>>
    ELSE IF Head(s) = sep THEN <<cur>> \o splitFrom(Tail(s), sep, <<>>)
    ELSE splitFrom(Tail(s), sep, Append(cur, Head(s)))

\* s.split(sep): the pieces between the occurrences of sep, empty ones kept
split(s, sep) == splitFrom(s, sep, <<>>)

RECURSIVE join(_, _)
join(pieces, sep) ==
    IF pieces = <<>> THEN <<>>
    ELSE IF Len(pieces) = 1 THEN pieces[1]
    ELSE pieces[1] \o <<sep>> \o join(Tail(pieces), sep)

RECURSIVE replace(_, _, _)
\* s.replace(old, new): the non-overlapping occurrences of old, left to right
replace(s, old, new) ==
    IF Len(s) < Len(old) THEN s
    ELSE IF startswith(s, old)
         THEN new \o replace(SubSeq(s, Len(old) + 1, Len(s)), old, new)
         ELSE <<Head(s)>> \o replace(Tail(s), old, new)

---------------------------------------------------------------------------
(* diamond.metric.Metric: the path is prefix.host.collector.metric...      *)

PathPrefix == <<"servers">>
Host == <<"host1">>

\* Metric.getCollectorPath(): the third segment of the path
getCollectorPath(path) == split(path, DOT)[3]

\* Metric.getMetricPath(): the path after the collector segment
getMetricPath(path) ==
    LET segs == split(path, DOT)
    IN  join(SubSeq(segs, 4, Len(segs)), DOT)

\* the Metric a collector publishes
Metric(collector, mpath) ==
    [path |-> join(<<PathPrefix, Host, <<collector>>, mpath>>, DOT)]

---------------------------------------------------------------------------
(* MetricWrapper.  w.path, w.tags, w.aggregate are the wrapper's fields,   *)
(* w.delegate the path of the wrapped Metric, w.raised an exception that   *)
(* left the handler.                                                       *)

\* self.tags[key] = value
setTag(t, key, value) == (key :> value) @@ t

processDefaultMetric(w) ==
    [w EXCEPT !.tags = <<>>, !.aggregate = FALSE]

processCpuMetricNoGuard(w) ==
    LET cpuId == split(getMetricPath(w.delegate), DOT)[1]
    IN  [w EXCEPT !.aggregate = (split(getMetricPath(w.path), DOT)[1] = <<"total">>),
                  !.tags = setTag(w.tags, "cpuId", cpuId),
                  !.path = replace(w.path, <<DOT>> \o cpuId \o <<DOT>>, <<DOT>>)]

processCpuMetric(w) ==
    IF Len(split(getMetricPath(w.path), DOT)) > 1
    THEN LET cpuId == split(getMetricPath(w.delegate), DOT)[1]
         IN  [w EXCEPT !.aggregate = (split(getMetricPath(w.path), DOT)[1] = <<"total">>),
                       !.tags = setTag(w.tags, "cpuId", cpuId),
                       !.path = replace(w.path, <<DOT>> \o cpuId \o <<DOT>>, <<DOT>>)]
    ELSE w

processHaProxyMetric(w) ==
    IF Len(split(getMetricPath(w.path), DOT)) = 3
    THEN LET backend == split(getMetricPath(w.delegate), DOT)[1]
             server == split(getMetricPath(w.delegate), DOT)[2]
             path1 == replace(w.path, <<DOT>> \o server \o <<DOT>>, <<DOT>>)
         IN  [w EXCEPT !.aggregate = (split(getMetricPath(w.path), DOT)[2] = <<"backend">>),
                       !.tags = setTag(setTag(w.tags, "backend", backend), "server", server),
                       !.path = replace(path1, <<DOT>> \o backend \o <<DOT>>, <<DOT>>)]
    ELSE w

processDiskspaceMetricKeepPath(w) ==
    IF Len(split(getMetricPath(w.path), DOT)) = 2
    THEN LET mountpoint == split(getMetricPath(w.delegate), DOT)[1]
         IN  [w EXCEPT !.tags = setTag(w.tags, "mountpoint", mountpoint)]
    ELSE w

processDiskspaceMetric(w) ==
    IF Len(split(getMetricPath(w.path), DOT)) = 2
    THEN LET mountpoint == split(getMetricPath(w.delegate), DOT)[1]
         IN  [w EXCEPT !.tags = setTag(w.tags, "mountpoint", mountpoint),
                       !.path = replace(w.path, <<DOT>> \o mountpoint \o <<DOT>>, <<DOT>>)]
    ELSE w

processDiskusageMetric(w) ==
    IF Len(split(getMetricPath(w.path), DOT)) = 2
    THEN LET device == split(getMetricPath(w.delegate), DOT)[1]
         IN  [w EXCEPT !.tags = setTag(w.tags, "device", device),
                       !.path = replace(w.path, <<DOT>> \o device \o <<DOT>>, <<DOT>>)]
    ELSE w

processNetworkMetric(w) ==
    IF Len(split(getMetricPath(w.path), DOT)) = 2
    THEN LET interface == split(getMetricPath(w.delegate), DOT)[1]
         IN  [w EXCEPT !.tags = setTag(w.tags, "interface", interface),
                       !.path = replace(w.path, <<DOT>> \o interface \o <<DOT>>, <<DOT>>)]
    ELSE w

\* lines 324-327: teamdetails or channeldetails
mattermostTeam(w, sp) ==
    IF sp[1] = <<"teamdetails">> \/ sp[1] = <<"channeldetails">>
    THEN [w EXCEPT !.tags = setTag(w.tags, "team", sp[2]),
                   !.path = replace(w.path, <<DOT>> \o sp[2] \o <<DOT>>, <<DOT>>)]
    ELSE w

\* lines 329-332: channeldetails
mattermostChannel(w, sp) ==
    IF sp[1] = <<"channeldetails">>
    THEN [w EXCEPT !.tags = setTag(w.tags, "channel", sp[3]),
                   !.path = replace(w.path, <<DOT>> \o sp[3] \o <<DOT>>, <<DOT>>)]
    ELSE w

\* lines 333-342: userdetails; split[3] of a three segment path is an IndexError
mattermostUser(w, sp) ==
    IF sp[1] = <<"userdetails">>
    THEN IF Len(sp) < 4
         THEN [w EXCEPT !.raised = TRUE]
         ELSE LET user == sp[2]
                  team == sp[3]
                  channel == sp[4]
                  path1 == replace(w.path, <<DOT>> \o user \o <<DOT>>, <<DOT>>)
                  path2 == replace(path1, <<DOT>> \o team \o <<DOT>>, <<DOT>>)
              IN  [w EXCEPT !.tags = setTag(setTag(setTag(w.tags, "user", user),
                                                   "team", team), "channel", channel),
                            !.path = replace(path2, <<DOT>> \o channel \o <<DOT>>, <<DOT>>)]
    ELSE w

processMattermostMetric(w) ==
    LET sp == split(getMetricPath(w.path), DOT)
    IN  IF Len(sp) > 2
        THEN mattermostUser(mattermostChannel(mattermostTeam(w, sp), sp), sp)
        ELSE w

\* the class attribute handlers, with the default of handlers.get
handlers(collector, w) ==
    CASE collector = <<"cpu">> -> processCpuMetric(w)
      [] collector = <<"haproxy">> -> processHaProxyMetric(w)
      [] collector = <<"mattermost">> -> processMattermostMetric(w)
      [] collector = <<"diskspace">> -> processDiskspaceMetric(w)
      [] collector = <<"iostat">> -> processDiskusageMetric(w)
      [] collector = <<"network">> -> processNetworkMetric(w)
      [] OTHER -> processDefaultMetric(w)

\* MetricWrapper.__init__
MetricWrapper(delegate) ==
    handlers(getCollectorPath(delegate.path),
             [path |-> delegate.path, delegate |-> delegate.path,
              tags |-> <<>>, aggregate |-> FALSE, raised |-> FALSE])

---------------------------------------------------------------------------
(* The metrics of the model. *)

Collectors == {"cpu", "haproxy", "mattermost", "diskspace", "iostat", "network",
               "memory"}

Words == {"total", "backend", "userdetails", "teamdetails", "channeldetails", "sda"}

\* the dotted paths of 1..n segments, each segment a word of W
PathsOver(W, n) ==
    UNION {{join([i \in 1..k |-> <<f[i]>>], DOT) : f \in [1..k -> W]} : k \in 1..n}

AllMetrics == {Metric(c, p) : c \in Collectors, p \in PathsOver(Words, MaxSegs)}

\* the metrics handed to process: one or two of each kind of outcome
ProcMetrics ==
    {Metric("cpu", <<"total", DOT, "idle">>),
     Metric("cpu", <<"sda", DOT, "idle">>),
     Metric("cpu", <<"total">>),
     Metric("haproxy", <<"sda", DOT, "backend", DOT, "total">>),
     Metric("haproxy", <<"backend", DOT, "sda", DOT, "total">>),
     Metric("diskspace", <<"sda", DOT, "total">>),
     Metric("mattermost", <<"userdetails", DOT, "sda", DOT, "total">>),
     Metric("mattermost", <<"userdetails", DOT, "sda", DOT, "sda", DOT, "sda", DOT, "total">>),
     Metric("memory", <<"total">>)}

\* MetricWrapper(m) for the metrics handed to process
Wrapped == [m \in ProcMetrics |-> MetricWrapper(m)]

---------------------------------------------------------------------------
(* TSDBHandler. *)

RETRY == 3

\* lines 79-86: self.tags from self.config['tags']
RECURSIVE joinList(_)
joinList(l) ==
    IF l = <<>> THEN <<>> ELSE <<SPACE>> \o Head(l) \o joinList(Tail(l))

configTags(c) ==
    LET t == IF c.tags.kind = "str" THEN c.tags.val
             ELSE IF c.tags.kind = "list" THEN joinList(c.tags.val)
             ELSE <<>>
    IN  IF t # <<>> /\ ~startswith(t, <<SPACE>>) THEN <<SPACE>> \o t ELSE t

\* lines 90-92: a tag with more than one "=" raises
invalidTag(t) ==
    \E i \in 1..Len(split(t, SPACE)) : count(split(t, SPACE)[i], EQ) > 1

\* socket.socket() hands out the lowest free descriptor
FreeId == CHOOSE id \in (1..MaxSockets) \ open :
              \A j \in (1..MaxSockets) \ open : id <= j

ConnectEvents == {"socket_error", "settimeout_error", "connect_error", "connect_ok"}

\* the events of _connect that leave it by an exception
Raising == {"socket_error", "settimeout_error"}

SendEvents == {"send_ok", "send_error", "send_partial"}

\* one entry of trace: attempt n of the operation, self.socket before it, the outcome
Entry(n, ev) == [attempt |-> n, sock |-> sock, ev |-> ev]

\* _close with the socket of a failed connect left open
_connectNoClose(ev) ==
    \/ /\ ev = "socket_error"
       /\ UNCHANGED <<sock, open>>
    \/ /\ ev # "socket_error"
       /\ (1..MaxSockets) \ open # {}
       /\ ev = "settimeout_error" <=> cfg.timeout < 0
       /\ sock' = FreeId
       /\ open' = open \cup {FreeId}

(* _connect, ending with outcome ev.  socket.socket() raises socket.error  *)
(* when no socket can be created (always so at the descriptor limit); the  *)
(* test "socket is None" is of the module and never true.  The new object  *)
(* is bound to self.socket before settimeout and connect run.  An object   *)
(* that self.socket held before loses its reference without a close(): the *)
(* interpreter closes it at once (reference counting) or when its          *)
(* collector runs (Collect).  settimeout raises ValueError for a negative  *)
(* timeout, outside the try.  A failed connect is caught and _close runs.  *)
_connect(ev) ==
    \/ /\ ev = "socket_error"
       /\ UNCHANGED <<sock, open>>
    \/ /\ ev # "socket_error"
       /\ (1..MaxSockets) \ open # {}
       /\ ev = "settimeout_error" <=> cfg.timeout < 0
       /\ \E released \in BOOLEAN :
            LET rest == IF released THEN open \ {sock} ELSE open
            IN  IF ev = "connect_error"
                THEN sock' = None /\ open' = rest
                ELSE sock' = FreeId /\ open' = rest \cup {FreeId}

\* _close
_close ==
    /\ open' = open \ {sock}
    /\ sock' = None

\* TSDBHandler.__init__: the tags, then _connect
Construct ==
    /\ phase = "new"
    /\ op' = "init"
    /\ tags' = configTags(cfg)
    /\ IF invalidTag(configTags(cfg))
       THEN /\ phase' = "failed"
            /\ raised' = TRUE
            /\ trace' = <<>>
            /\ UNCHANGED <<sock, open>>
       ELSE \E ev \in ConnectEvents :
            /\ _connect(ev)
            /\ trace' = <<Entry(1, ev)>>
            /\ raised' = (ev \in Raising)
            /\ phase' = IF ev \in Raising THEN "failed" ELSE "ready"
    /\ UNCHANGED <<cfg, pc, retry, data, metric, wrapper>>

\* the order in which process meets the keys of metric.getTags() (a dict)
TagKeys == <<"cpuId", "backend", "server", "mountpoint", "device", "interface",
             "user", "team", "channel">>

RECURSIVE renderTags(_, _)
\* lines 153-154: " " + tagKey + "=" + value for the keys of t among ks
renderTags(t, ks) ==
    IF ks = <<>> THEN <<>>
    ELSE (IF Head(ks) \in DOMAIN t THEN <<SPACE, Head(ks), EQ>> \o t[Head(ks)] ELSE <<>>)
         \o renderTags(t, Tail(ks))

\* lines 156-166: the arguments of metric_format.format, sent after "put "
Line(path, tagsForMetric) ==
    [Collector |-> getCollectorPath(path), Path |-> path,
     Metric |-> getMetricPath(path), tags |-> tagsForMetric]

\* the call self._send(data): line 172
callSend(line) ==
    /\ data' = <<line>>
    /\ retry' = RETRY
    /\ pc' = "send"
    /\ raised' = FALSE

\* process returns or raises without calling _send
noSend(exc) ==
    /\ data' = Absent
    /\ raised' = exc
    /\ UNCHANGED <<retry, pc>>

\* TSDBHandler.process up to the call of _send
Process ==
    /\ phase = "ready"
    /\ pc = "idle"
    /\ op' = "process"
    /\ trace' = <<>>
    /\ \E m \in ProcMetrics :
         /\ metric' = <<m>>
         /\ IF cfg.cleanMetrics
            THEN LET w == Wrapped[m]
                 IN  /\ wrapper' = <<w>>
                     /\ IF w.raised THEN noSend(TRUE)
                        ELSE IF cfg.skipAggregates /\ w.aggregate THEN noSend(FALSE)
                        ELSE callSend(Line(w.path, tags \o renderTags(w.tags, TagKeys)))
            ELSE /\ wrapper' = Absent
                 /\ callSend(Line(m.path, tags))
    /\ UNCHANGED <<phase, cfg, tags, sock, open>>

\* the loop of _send goes on while retry > 0
loop(r) == IF r > 0 THEN "send" ELSE "idle"

\* lines 176-184: no socket, so _connect and the next attempt
SendReconnect ==
    /\ pc = "send"
    /\ retry > 0
    /\ sock = None
    /\ \E ev \in ConnectEvents :
         /\ _connect(ev)
         /\ trace' = Append(trace, Entry(RETRY - retry + 1, ev))
         /\ IF ev \in Raising
            THEN raised' = TRUE /\ pc' = "idle" /\ retry' = retry
            ELSE raised' = FALSE /\ pc' = loop(retry - 1) /\ retry' = retry - 1
    /\ UNCHANGED <<phase, cfg, tags, data, op, metric, wrapper>>

\* a failed sendall that leaves the socket as it is
SendWriteNoClose ==
    /\ pc = "send"
    /\ retry > 0
    /\ sock # None
    /\ \E ev \in SendEvents :
         /\ trace' = Append(trace, Entry(RETRY - retry + 1, ev))
         /\ IF ev = "send_ok"
            THEN pc' = "idle" /\ retry' = retry
            ELSE pc' = loop(retry - 1) /\ retry' = retry - 1
         /\ UNCHANGED <<sock, open>>
    /\ UNCHANGED <<phase, cfg, tags, data, op, raised, metric, wrapper>>

(* lines 185-198: sendall; done, or socket.error (with none or some of the *)
(* bytes sent), _close and the next attempt                                *)
SendWrite ==
    /\ pc = "send"
    /\ retry > 0
    /\ sock # None
    /\ \E ev \in SendEvents :
         /\ trace' = Append(trace, Entry(RETRY - retry + 1, ev))
         /\ IF ev = "send_ok"
            THEN pc' = "idle" /\ retry' = retry /\ UNCHANGED <<sock, open>>
            ELSE pc' = loop(retry - 1) /\ retry' = retry - 1 /\ _close
    /\ UNCHANGED <<phase, cfg, tags, data, op, raised, metric, wrapper>>

\* a call of _connect on the constructed handler
Connect ==
    /\ phase = "ready"
    /\ pc = "idle"
    /\ op' = "connect"
    /\ \E ev \in ConnectEvents :
         /\ _connect(ev)
         /\ trace' = <<Entry(1, ev)>>
         /\ raised' = (ev \in Raising)
    /\ data' = Absent
    /\ metric' = Absent
    /\ wrapper' = Absent
    /\ UNCHANGED <<phase, cfg, tags, pc, retry>>

\* a call of _close on the constructed handler
Close ==
    /\ phase = "ready"
    /\ pc = "idle"
    /\ op' = "close"
    /\ _close
    /\ trace' = <<>>
    /\ raised' = FALSE
    /\ data' = Absent
    /\ metric' = Absent
    /\ wrapper' = Absent
    /\ UNCHANGED <<phase, cfg, tags, pc, retry>>

\* __del__, also of a handler whose __init__ raised
Del ==
    /\ phase \in {"ready", "failed"}
    /\ pc = "idle"
    /\ op' = "del"
    /\ phase' = "dead"
    /\ _close
    /\ trace' = <<>>
    /\ raised' = FALSE
    /\ data' = Absent
    /\ metric' = Absent
    /\ wrapper' = Absent
    /\ UNCHANGED <<cfg, tags, pc, retry>>

\* the interpreter closes the socket objects nothing refers to
Collect ==
    /\ open \ {sock} # {}
    /\ open' = open \cap {sock}
    /\ UNCHANGED <<phase, cfg, tags, sock, pc, retry, data, op, trace, raised,
                   metric, wrapper>>

---------------------------------------------------------------------------
(* The configuration.  tags is a string or a list of strings.             *)

\* get_default_config
DefaultConfig ==
    [tags |-> [kind |-> "str", val |-> <<>>], cleanMetrics |-> TRUE,
     skipAggregates |-> TRUE, timeout |-> 5]

TagTokens == {"k", EQ, COMMA, SPACE}

\* the strings of at most n tokens
Strings(n) == UNION {[1..k -> TagTokens] : k \in 0..n}

\* the example of the module docstring: tags = environment=test,datacenter=north
DocExample == <<"k", EQ, "k", COMMA, "k", EQ, "k">>

\* every tags setting within the bounds, and the example
AllTags ==
    {[kind |-> "str", val |-> s] : s \in Strings(MaxTagLen) \cup {DocExample}}
    \cup {[kind |-> "list", val |-> l] :
            l \in UNION {[1..k -> Strings(2)] : k \in 1..MaxTagList}}

SomeTags ==
    {[kind |-> "str", val |-> <<>>],
     [kind |-> "str", val |-> <<"k", EQ, "k">>],
     [kind |-> "list", val |-> <<<<"k", EQ, "k">>, <<"k", EQ, "k">>>>],
     [kind |-> "str", val |-> <<"k", EQ, "k", EQ, "k">>]}

InitHandler(T, CS, TO) ==
    /\ phase = "new"
    /\ cfg \in {[tags |-> t, cleanMetrics |-> c, skipAggregates |-> s, timeout |-> to] :
                  t \in T, c \in CS, s \in CS, to \in TO}
    /\ tags = <<>>
    /\ sock = None
    /\ open = {}
    /\ pc = "idle"
    /\ retry = 0
    /\ data = Absent
    /\ op = "none"
    /\ trace = <<>>
    /\ raised = FALSE
    /\ metric = Absent
    /\ wrapper = Absent

---------------------------------------------------------------------------
(* The handler: construction, then process, _connect, _close in any order, *)
(* one call at a time, until __del__.                                      *)

Init == InitHandler(SomeTags, BOOLEAN, {5, -1})

Next ==
    \/ Construct
    \/ Process
    \/ SendReconnect
    \/ SendWrite
    \/ Connect
    \/ Close
    \/ Del
    \/ Collect

Spec == Init /\ [][Next]_vars

---------------------------------------------------------------------------
(* Construction on its own, for every tags setting.                        *)

InitTags == InitHandler(AllTags, {TRUE}, {5})

NextTags == Construct \/ Del

SpecTags == InitTags /\ [][NextTags]_vars

---------------------------------------------------------------------------
(* Tag extraction on its own: MetricWrapper(metric) for every metric.      *)

InitExtract ==
    /\ phase = "extract"
    /\ cfg = DefaultConfig
    /\ tags = <<>>
    /\ sock = None
    /\ open = {}
    /\ pc = "idle"
    /\ retry = 0
    /\ data = Absent
    /\ op = "none"
    /\ trace = <<>>
    /\ raised = FALSE
    /\ metric \in {<<m>> : m \in AllMetrics}
    /\ wrapper = Absent

Wrap ==
    /\ phase = "extract"
    /\ wrapper = Absent
    /\ wrapper' = <<MetricWrapper(metric[1])>>
    /\ UNCHANGED <<phase, cfg, tags, sock, open, pc, retry, data, op, trace,
                   raised, metric>>

NextExtract == Wrap

SpecExtract == InitExtract /\ [][NextExtract]_vars

---------------------------------------------------------------------------
(* Properties of tag extraction (SpecExtract).                             *)

\* the collector and the segments of the metric path handed to MetricWrapper
InCollector == getCollectorPath(metric[1].path)
InSegs == split(getMetricPath(metric[1].path), DOT)

\* the segment count the collector's rule asks for (spec 4.1)
Precondition ==
    CASE InCollector = <<"cpu">> -> Len(InSegs) > 1
      [] InCollector = <<"haproxy">> -> Len(InSegs) = 3
      [] InCollector \in {<<"diskspace">>, <<"iostat">>, <<"network">>} -> Len(InSegs) = 2
      [] InCollector = <<"mattermost">> -> Len(InSegs) > 2
      [] OTHER -> TRUE

\* the path has the segments the tags of the collector's rule are read from
ShapeFits ==
    /\ Precondition
    /\ InCollector = <<"mattermost">> =>
         \/ InSegs[1] \in {<<"teamdetails">>, <<"channeldetails">>}
         \/ InSegs[1] = <<"userdetails">> /\ Len(InSegs) > 3

Unmodified(w) ==
    w.tags = <<>> /\ ~w.aggregate /\ w.path = metric[1].path

(* C3: for every collector and metric path, building the MetricWrapper     *)
(* does not raise, and a path without the shape the collector's rule needs *)
(* (a mattermost userdetails path with too few segments included) leaves   *)
(* the metric as it was: no tag, aggregate false, path unchanged.          *)
C3_ExtractNeverRaises ==
    wrapper # Absent =>
        /\ ~wrapper[1].raised
        /\ ~ShapeFits => Unmodified(wrapper[1])

(* C4: the aggregate flag is true if and only if the collector is cpu, the *)
(* metric path has more than one segment and segment 0 is "total", or the  *)
(* collector is haproxy, the metric path has exactly 3 segments and        *)
(* segment 1 is "backend".                                                 *)
C4_AggregateIff ==
    wrapper # Absent =>
        (wrapper[1].aggregate <=>
            \/ /\ InCollector = <<"cpu">>
               /\ Len(InSegs) > 1
               /\ InSegs[1] = <<"total">>
            \/ /\ InCollector = <<"haproxy">>
               /\ Len(InSegs) = 3
               /\ InSegs[2] = <<"backend">>)

\* an haproxy backend total was classified as aggregate
C4_Witness ==
    /\ wrapper # Absent
    /\ InCollector = <<"haproxy">>
    /\ InSegs[1] = <<"sda">>
    /\ wrapper[1].aggregate

\* the segments of the rewritten path
OutSegs == split(wrapper[1].path, DOT)

TagValues == {wrapper[1].tags[k] : k \in DOMAIN wrapper[1].tags}

(* C5 as claimed: whenever the rule's precondition holds, no segment of    *)
(* the rewritten path equals a value placed into the tag set, also when    *)
(* the value occurs more than once in the path or is its last segment.     *)
C5_NoTagValueInPath ==
    (wrapper # Absent /\ Precondition) =>
        \A i \in 1..Len(OutSegs) : OutSegs[i] \notin TagValues

\* v occurs in the path only in the segments it was extracted from, none the last
OnlyExtracted(v) ==
    /\ Cardinality({i \in 1..Len(InSegs) : InSegs[i] = v})
          = Cardinality({k \in DOMAIN wrapper[1].tags : wrapper[1].tags[k] = v})
    /\ InSegs[Len(InSegs)] # v

(* C5, amended: whenever the rule's precondition holds, no segment of the  *)
(* rewritten path equals a tag value that occurs in the original path only *)
(* in the segments it was extracted from, none of them the last segment.   *)
C5_NoSingleTagValueInPath ==
    (wrapper # Absent /\ Precondition) =>
        \A v \in TagValues :
            OnlyExtracted(v) => \A i \in 1..Len(OutSegs) : OutSegs[i] # v

\* mattermost userdetails.u.t.c.x: three tags extracted, three segments removed
C5_Witness ==
    /\ wrapper # Absent
    /\ InCollector = <<"mattermost">>
    /\ Len(InSegs) = 5
    /\ InSegs[1] = <<"userdetails">>
    /\ Cardinality(DOMAIN wrapper[1].tags) = 3
    /\ \A v \in TagValues : OnlyExtracted(v)
    /\ Len(OutSegs) = 5

---------------------------------------------------------------------------
(* Properties of construction (SpecTags).                                  *)

\* the key=value tokens of the tags setting: split at "," and at " "
Pairs ==
    LET t == IF cfg.tags.kind = "str" THEN cfg.tags.val ELSE joinList(cfg.tags.val)
    IN  split(replace(t, <<COMMA>>, <<SPACE>>), SPACE)

(* C6: construction fails on the tags if and only if one of the key=value  *)
(* tokens of the setting, comma or space separated or a list, holds two or *)
(* more "="; "k=k,k=k" is accepted.                                        *)
C6_FailsIffDoubleEquals ==
    op = "init" =>
        ((raised /\ trace = <<>>) <=> \E i \in 1..Len(Pairs) : count(Pairs[i], EQ) >= 2)

---------------------------------------------------------------------------
(* Properties of the handler (Spec).                                       *)

ConnectFailures == {"socket_error", "settimeout_error", "connect_error"}
SendFailures == {"send_error", "send_partial"}

\* a call of _send has ended
SendEnded == op = "process" /\ data # Absent /\ pc = "idle"

(* C1: a call of _send in which every connect and every write fails        *)
(* returns without raising, has transmitted no bytes and has made exactly  *)
(* 3 attempts.                                                             *)
C1_AllFailReturnsAfterThree ==
    (SendEnded /\ \A i \in 1..Len(trace) : trace[i].ev \in ConnectFailures \cup SendFailures) =>
        /\ ~raised
        /\ Len(trace) = RETRY
        /\ \A i \in 1..Len(trace) : trace[i].ev # "send_partial"

(* C2: _connect never raises; after any failure of it, in the constructor  *)
(* or inside _send, it has returned normally and self.socket is None.      *)
C2_ConnectNeverRaises ==
    (trace # <<>> /\ trace[Len(trace)].ev \in ConnectFailures) =>
        ~raised /\ sock = None

(* C7: process drops the metric (no _send, nothing done to the connection) *)
(* when cleanMetrics and skipAggregates are set and extraction classifies  *)
(* it as aggregate; in every other case it calls _send with one line, and  *)
(* with cleanMetrics false the line has the static tags and the unmodified *)
(* path.                                                                   *)
C7_DropOnlyAggregates ==
    (op = "process" /\ metric # Absent) =>
        IF cfg.cleanMetrics /\ cfg.skipAggregates /\ Wrapped[metric[1]].aggregate
        THEN data = Absent /\ trace = <<>> /\ ~raised
        ELSE /\ data # Absent
             /\ ~cfg.cleanMetrics =>
                  data[1].Path = metric[1].path /\ data[1].tags = tags

(* C8 as claimed: when construction completes no connection exists and no  *)
(* connect attempt has been made.                                          *)
C8_StartsDisconnected ==
    (op = "init" /\ phase = "ready") => (sock = None /\ trace = <<>>)

(* C8, amended: when construction completes the constructor has made       *)
(* exactly one connect attempt; the handler holds a socket, the only one   *)
(* open, if that attempt succeeded, and none if it failed.                 *)
C8_ConstructConnectsOnce ==
    (op = "init" /\ phase = "ready") =>
        /\ Len(trace) = 1
        /\ trace[1].ev \in {"connect_ok", "connect_error"}
        /\ trace[1].ev = "connect_ok" => sock # None /\ open = {sock}
        /\ trace[1].ev = "connect_error" => sock = None /\ open = {}

\* the handler was constructed and its connect attempt succeeded
C8_Witness ==
    op = "init" /\ phase = "ready" /\ sock # None

(* C9: in a call of _send every attempt does one thing: _connect and no    *)
(* write when self.socket is None, one sendall when it is not; a sendall   *)
(* that succeeds ends the call; one that fails closes the socket, so that  *)
(* the next attempt is the reconnect.  Attempts are at most 3.             *)
C9_OneThingPerAttempt ==
    op = "process" =>
        /\ Len(trace) <= RETRY
        /\ \A i \in 1..Len(trace) :
             /\ trace[i].attempt = i
             /\ trace[i].sock = None => trace[i].ev \in ConnectEvents
             /\ trace[i].sock # None => trace[i].ev \in SendEvents
             /\ trace[i].ev = "send_ok" => (i = Len(trace) /\ pc = "idle")
             /\ trace[i].ev \in SendFailures =>
                  IF i < Len(trace)
                  THEN trace[i + 1].sock = None /\ trace[i + 1].ev \in ConnectEvents
                  ELSE sock = None /\ trace[i].sock \notin open
        /\ (trace # <<>> /\ trace[1].sock = None) =>
             \A i \in 1..Len(trace) : trace[i].ev \in SendEvents => i >= 2
        /\ (trace # <<>> /\ trace[1].ev \in SendFailures) =>
             \A i \in 2..Len(trace) : trace[i].ev \in SendEvents => i >= 3

\* a first write failed, attempt 2 reconnected, attempt 3 wrote
C9_Witness ==
    /\ op = "process"
    /\ Len(trace) = 3
    /\ trace[1].ev = "send_error"
    /\ trace[2].ev = "connect_ok"
    /\ trace[3].ev = "send_ok"

(* C10: in every reachable state at most one socket is open, and it is the *)
(* one self.socket holds; after _close no socket is open and self.socket   *)
(* is None.                                                                *)
C10_OneSocket ==
    /\ open \subseteq {sock}
    /\ op = "close" => (sock = None /\ open = {})

=============================================================================
